---- MODULE Spec2Model ----
(***************************************************************************)
(* A model of examples/usage_tracker.py: the UsageTracker client, its      *)
(* constructor and its two operations track_usage (the spec's              *)
(* submit_usage) and get_usage, each split at the blocking HTTP exchange.  *)
(*                                                                         *)
(* Strings the code inspects character by character (the portal URL) are   *)
(* sequences of one-character strings; the other strings are TLA+ strings. *)
(* An Optional[str] is <<>> for None and <<s>> for the string s.  An error *)
(* message is a sequence of text parts.                                    *)
(***************************************************************************)
EXTENDS Integers, Sequences, FiniteSets, TLC

VARIABLES
    requests_version, \* the installed requests library: decides the class of a JSON decode error
    init_args,        \* the arguments of UsageTracker(...), once it was called
    init_result,      \* "new" before the constructor ran, "ok", or "ValueError"
    init_message,     \* the message of the constructor's ValueError
    tracker,          \* the constructed object's fields, or NoTracker
    pc,               \* per caller: "idle", "awaiting" (inside requests.post/get), "done"
    call,             \* per caller: the operation and its arguments
    inflight,         \* per caller: the HTTP request the call built and sent
    sent,             \* per caller: the number of HTTP requests the current call issued
    response,         \* per caller: what the HTTP exchange produced
    outcome,          \* per caller: what the call returned or raised
    client,           \* the TrackedOpenAI object's track_failures, once it was constructed
    wpc,              \* per caller, in TrackedOpenAI: "idle", "calling" (inside the completion
                      \* API call), "tracking" (inside tracker.track_usage), "done"
    wcall,            \* per caller: the TrackedOpenAI method called and its model argument
    api_response,     \* per caller: what the completion API call produced
    attempts,         \* per caller: the number of tracker.track_usage calls of the current call
    tracked,          \* per caller: what _track_usage returned or raised
    wresult           \* per caller: what the TrackedOpenAI method returned or raised

tracked_vars == <<client, wpc, wcall, api_response, attempts, tracked, wresult>>

vars == <<requests_version, init_args, init_result, init_message, tracker,
          pc, call, inflight, sent, response, outcome, tracked_vars>>

-----------------------------------------------------------------------------
(* Bounds and input sets *)

\* the longest portal URL tried, in characters
MaxUrlLen == 2

\* timeout: int = 30
DefaultTimeout == 30

Callers == {"c1", "c2"}

UrlChars == {"h", "/"}

RECURSIVE SeqsUpTo(_, _)
SeqsUpTo(S, n) ==
    IF n = 0 THEN {<<>>}
    ELSE LET shorter == SeqsUpTo(S, n - 1)
         IN  shorter \cup {Append(s, x) : s \in {t \in shorter : Len(t) = n - 1}, x \in S}

PortalUrls   == SeqsUpTo(UrlChars, MaxUrlLen)
AuthTokens   == {"", "tok"}
ProjectIds   == {"", "proj"}
Timeouts     == {5, DefaultTimeout}

None == <<>>
Some(s) == <<s>>

Providers    == {"", "openai"}
Models       == {"", "gpt-4"}
InputTokens  == {-1, 1500}
OutputTokens == {500}
Timestamps   == {None, Some(""), Some("2024-01-01T00:00:00Z")}
Dates        == {None, Some(""), Some("2024-01-01")}

RequestsVersions == {"2.27+", "pre-2.27"}

-----------------------------------------------------------------------------
(* Python string helpers *)

\* rstrip that drops one trailing ch only
rstrip_once(s, ch) ==
    IF Len(s) > 0 /\ s[Len(s)] = ch THEN SubSeq(s, 1, Len(s) - 1) ELSE s

\* str.rstrip(ch): drop every trailing ch
RECURSIVE rstrip(_, _)
rstrip(s, ch) ==
    IF Len(s) > 0 /\ s[Len(s)] = ch THEN rstrip(SubSeq(s, 1, Len(s) - 1), ch)
    ELSE s

\* str(n) of a non-negative int, one decimal digit per element
Digit(d) == <<"0", "1", "2", "3", "4", "5", "6", "7", "8", "9">>[d + 1]

RECURSIVE IntToStr(_)
IntToStr(n) ==
    IF n < 10 THEN <<Digit(n)>>
    ELSE IntToStr(n \div 10) \o <<Digit(n % 10)>>

\* truthiness of an Optional[str] in `if x:`: None and "" are both false
Truthy(opt) == opt # None /\ opt[1] # ""

-----------------------------------------------------------------------------
(* The exception classes: UsageTrackerError and its subclasses, and the    *)
(* classes of the requests library that the except clauses name.           *)

UsageTrackerErrors == {"UsageTrackerError", "AuthenticationError", "ValidationError"}

\* the classes a raised exception of class cls is an instance of
Bases(cls, version) ==
    CASE cls = "UsageTrackerError"   -> {"UsageTrackerError", "Exception"}
      [] cls = "AuthenticationError" -> {"AuthenticationError", "UsageTrackerError", "Exception"}
      [] cls = "ValidationError"     -> {"ValidationError", "UsageTrackerError", "Exception"}
      [] cls = "ReadTimeout"         -> {"ReadTimeout", "Timeout", "RequestException", "Exception"}
      [] cls = "ConnectTimeout"      -> {"ConnectTimeout", "ConnectionError", "Timeout",
                                         "RequestException", "Exception"}
      [] cls = "ConnectionError"     -> {"ConnectionError", "RequestException", "Exception"}
      [] cls = "TooManyRedirects"    -> {"TooManyRedirects", "RequestException", "Exception"}
      [] cls = "JSONDecodeError"     -> IF version = "2.27+"
                                        THEN {"JSONDecodeError", "InvalidJSONError",
                                              "RequestException", "ValueError", "Exception"}
                                        ELSE {"JSONDecodeError", "ValueError", "Exception"}
      [] cls = "AttributeError"      -> {"AttributeError", "Exception"}
      [] cls = "ValueError"          -> {"ValueError", "Exception"}
      [] cls = "KeyError"            -> {"KeyError", "LookupError", "Exception"}
      [] cls = "TypeError"           -> {"TypeError", "Exception"}
      [] cls = "APIError"            -> {"APIError", "OpenAIError", "Exception"}

IsInstance(cls, base, version) == base \in Bases(cls, version)

\* what requests.post / requests.get can raise instead of returning a response
TransportFailures == {"ReadTimeout", "ConnectTimeout", "ConnectionError", "TooManyRedirects"}

\* str(e) of a transport failure
Detail(cls) ==
    CASE cls = "ReadTimeout"      -> "Read timed out."
      [] cls = "ConnectTimeout"   -> "Connection to host timed out."
      [] cls = "ConnectionError"  -> "Max retries exceeded."
      [] cls = "TooManyRedirects" -> "Exceeded 30 redirects."
      [] cls = "JSONDecodeError"  -> "Expecting value: line 1 column 1 (char 0)"
      [] OTHER                    -> ""

-----------------------------------------------------------------------------
(* HTTP responses *)

StatusCodes == {200, 304, 401, 404, 422, 500}

\* a response body: text that is not JSON, a JSON array, a JSON object
\* without an "error" key, a JSON object with one
NotJson   == [wellformed |-> FALSE, type |-> "none",   keys |-> {},        error |-> ""]
JsonArray == [wellformed |-> TRUE,  type |-> "array",  keys |-> {},        error |-> ""]
JsonUsage == [wellformed |-> TRUE,  type |-> "object",
              keys |-> {"id", "total_tokens", "cost_usd"}, error |-> ""]
JsonError == [wellformed |-> TRUE,  type |-> "object", keys |-> {"error"},
              error |-> "input_tokens must be >= 0"]
Bodies    == {NotJson, JsonArray, JsonUsage, JsonError}

NoResponse == [exception |-> "none", status_code |-> 0, body |-> NotJson]

\* everything one HTTP exchange can produce
Responses ==
    {[exception |-> e, status_code |-> 0, body |-> NotJson] : e \in TransportFailures}
    \cup {[exception |-> "none", status_code |-> s, body |-> b] : s \in StatusCodes, b \in Bodies}

\* Response.ok: raise_for_status() raises for 400 <= status < 600 only
ResponseOk(status_code) == ~(400 <= status_code /\ status_code < 600)

\* the value response.json() returns for a well-formed body
JsonValue(body) == [type |-> body.type, keys |-> body.keys, error |-> body.error]

NoValue == [type |-> "none", keys |-> {}, error |-> ""]

\* results of a block of code: a returned value or a raised exception
Return(value)   == [kind |-> "return", exc |-> "none", msg |-> <<>>, value |-> value]
Raise(cls, msg) == [kind |-> "raise",  exc |-> cls,    msg |-> msg,  value |-> NoValue]
NoOutcome       == [kind |-> "none",   exc |-> "none", msg |-> <<>>, value |-> NoValue]

\* response.json()
ResponseJson(resp) ==
    IF resp.body.wellformed THEN Return(JsonValue(resp.body))
    ELSE Raise("JSONDecodeError", <<Detail("JSONDecodeError")>>)

-----------------------------------------------------------------------------
(* UsageTracker.__init__ *)

NoTracker == [portal_url |-> <<>>, auth_token |-> "", project_id |-> "", timeout |-> 0]
NoArgs    == NoTracker

\* the four assignments to self
InitFields(portal_url, auth_token, project_id, timeout) ==
    [portal_url |-> rstrip(portal_url, "/"),
     auth_token |-> auth_token,
     project_id |-> project_id,
     timeout    |-> timeout]

\* InitValidate without its last check
InitValidate_NoProjectCheck(self) ==
    IF self.portal_url = <<>> THEN "portal_url is required"
    ELSE IF self.auth_token = "" THEN "auth_token is required"
    ELSE ""

\* "Validate inputs": the message of the ValueError raised, "" when none is
InitValidate(self) ==
    IF self.portal_url = <<>> THEN "portal_url is required"
    ELSE IF self.auth_token = "" THEN "auth_token is required"
    ELSE IF self.project_id = "" THEN "project_id is required"
    ELSE ""

UsageTracker_init(portal_url, auth_token, project_id, timeout) ==
    /\ init_result = "new"
    /\ LET self == InitFields(portal_url, auth_token, project_id, timeout)
           err  == InitValidate(self)
       IN  /\ init_args' = [portal_url |-> portal_url, auth_token |-> auth_token,
                            project_id |-> project_id, timeout |-> timeout]
           /\ init_message' = err
           /\ IF err = ""
              THEN init_result' = "ok" /\ tracker' = self
              ELSE init_result' = "ValueError" /\ tracker' = NoTracker
    /\ UNCHANGED <<requests_version, pc, call, inflight, sent, response, outcome>>

-----------------------------------------------------------------------------
(* Requests and calls *)

NoRequest == [method |-> "none", url |-> <<>>, json |-> <<>>, params |-> <<>>,
              headers |-> <<>>, timeout |-> 0]

NoCall == [op |-> "none", provider |-> "", model |-> "", input_tokens |-> 0,
           output_tokens |-> 0, request_timestamp |-> None,
           date_from |-> None, date_to |-> None]

\* the frame of a call that has ended: its arguments are gone, the operation's name is kept
Ended(op) == [NoCall EXCEPT !.op = op]

\* _get_headers
get_headers(self) ==
    [Authorization |-> <<"Bearer ", self.auth_token>>,
     ContentType   |-> "application/json",
     UserAgent     |-> "TechSupportPortal-UsageTracker/1.0"]

-----------------------------------------------------------------------------
(* UsageTracker.track_usage *)

\* url = f"{self.portal_url}/api/usage"
track_usage_url(self) == self.portal_url \o <<"/", "a", "p", "i", "/", "u", "s", "a", "g", "e">>

\* track_usage_payload testing `request_timestamp is not None`
track_usage_payload_not_none(self, provider, model, input_tokens, output_tokens, request_timestamp) ==
    IF request_timestamp # None
    THEN [project_id        |-> self.project_id,
          provider          |-> provider,
          model             |-> model,
          input_tokens      |-> input_tokens,
          output_tokens     |-> output_tokens,
          request_timestamp |-> request_timestamp[1]]
    ELSE [project_id        |-> self.project_id,
          provider          |-> provider,
          model             |-> model,
          input_tokens      |-> input_tokens,
          output_tokens     |-> output_tokens]

\* payload = {...}; if request_timestamp: payload["request_timestamp"] = request_timestamp
track_usage_payload(self, provider, model, input_tokens, output_tokens, request_timestamp) ==
    IF Truthy(request_timestamp)
    THEN [project_id        |-> self.project_id,
          provider          |-> provider,
          model             |-> model,
          input_tokens      |-> input_tokens,
          output_tokens     |-> output_tokens,
          request_timestamp |-> request_timestamp[1]]
    ELSE [project_id        |-> self.project_id,
          provider          |-> provider,
          model             |-> model,
          input_tokens      |-> input_tokens,
          output_tokens     |-> output_tokens]

\* the body of the try block once requests.post has returned resp or raised resp.exception
track_usage_try(resp) ==
    IF resp.exception # "none" THEN Raise(resp.exception, <<Detail(resp.exception)>>)
    ELSE IF resp.status_code = 401
         THEN Raise("AuthenticationError", <<"Authentication failed. Check your auth token.">>)
    ELSE IF resp.status_code = 422
         THEN LET error_data == ResponseJson(resp)
              IN  IF error_data.kind = "raise" THEN error_data
                  ELSE IF error_data.value.type # "object"
                       THEN Raise("AttributeError", <<"object has no attribute 'get'">>)
                  ELSE Raise("ValidationError",
                             <<"Validation failed: ",
                               IF "error" \in error_data.value.keys
                               THEN error_data.value.error
                               ELSE "Unknown error">>)
    ELSE IF resp.status_code = 404
         THEN Raise("UsageTrackerError", <<"Project not found or access denied">>)
    ELSE IF ~ResponseOk(resp.status_code)
         THEN Raise("UsageTrackerError",
                    <<"API request failed with status ">> \o IntToStr(resp.status_code))
    ELSE ResponseJson(resp)

\* track_usage_except with the first two clauses in the other order
track_usage_except_swapped(self, r, version) ==
    IF r.kind # "raise" THEN r
    ELSE IF IsInstance(r.exc, "ConnectionError", version)
         THEN Raise("UsageTrackerError", <<"Failed to connect to ">> \o self.portal_url)
    ELSE IF IsInstance(r.exc, "Timeout", version)
         THEN Raise("UsageTrackerError",
                    <<"Request timed out after ">> \o IntToStr(self.timeout) \o <<" seconds">>)
    ELSE IF IsInstance(r.exc, "RequestException", version)
         THEN Raise("UsageTrackerError", <<"Request failed: ">> \o r.msg)
    ELSE r

\* the three except clauses, tried in order; an exception none of them names propagates
track_usage_except(self, r, version) ==
    IF r.kind # "raise" THEN r
    ELSE IF IsInstance(r.exc, "Timeout", version)
         THEN Raise("UsageTrackerError",
                    <<"Request timed out after ">> \o IntToStr(self.timeout) \o <<" seconds">>)
    ELSE IF IsInstance(r.exc, "ConnectionError", version)
         THEN Raise("UsageTrackerError", <<"Failed to connect to ">> \o self.portal_url)
    ELSE IF IsInstance(r.exc, "RequestException", version)
         THEN Raise("UsageTrackerError", <<"Request failed: ">> \o r.msg)
    ELSE r

\* track_usage up to the point where requests.post blocks
track_usage_request(c, provider, model, input_tokens, output_tokens, request_timestamp) ==
    /\ init_result = "ok"
    /\ pc[c] = "idle"
    /\ pc' = [pc EXCEPT ![c] = "awaiting"]
    /\ call' = [call EXCEPT ![c] =
                   [op |-> "track_usage", provider |-> provider, model |-> model,
                    input_tokens |-> input_tokens, output_tokens |-> output_tokens,
                    request_timestamp |-> request_timestamp,
                    date_from |-> None, date_to |-> None]]
    /\ inflight' = [inflight EXCEPT ![c] =
                       [method  |-> "POST",
                        url     |-> track_usage_url(tracker),
                        json    |-> track_usage_payload(tracker, provider, model, input_tokens,
                                                        output_tokens, request_timestamp),
                        params  |-> <<>>,
                        headers |-> get_headers(tracker),
                        timeout |-> tracker.timeout]]
    /\ sent' = [sent EXCEPT ![c] = @ + 1]
    /\ UNCHANGED <<requests_version, init_args, init_result, init_message, tracker,
                   response, outcome>>

\* track_usage_response that sends the request again after a timeout
track_usage_response_retry(c, resp) ==
    /\ pc[c] = "awaiting"
    /\ call[c].op = "track_usage"
    /\ IF IsInstance(resp.exception, "Timeout", requests_version) /\ sent[c] < 2
       THEN /\ sent' = [sent EXCEPT ![c] = @ + 1]
            /\ UNCHANGED <<pc, response, outcome, call, inflight>>
       ELSE /\ pc' = [pc EXCEPT ![c] = "done"]
            /\ response' = [response EXCEPT ![c] = resp]
            /\ outcome' = [outcome EXCEPT ![c] =
                              track_usage_except(tracker, track_usage_try(resp), requests_version)]
            /\ call' = [call EXCEPT ![c] = Ended("track_usage")]
            /\ inflight' = [inflight EXCEPT ![c] = NoRequest]
            /\ UNCHANGED sent
    /\ UNCHANGED <<requests_version, init_args, init_result, init_message, tracker>>

\* track_usage from the return of requests.post to its own return or raise
track_usage_response(c, resp) ==
    /\ pc[c] = "awaiting"
    /\ call[c].op = "track_usage"
    /\ pc' = [pc EXCEPT ![c] = "done"]
    /\ response' = [response EXCEPT ![c] = resp]
    /\ outcome' = [outcome EXCEPT ![c] =
                      track_usage_except(tracker, track_usage_try(resp), requests_version)]
    /\ call' = [call EXCEPT ![c] = Ended("track_usage")]
    /\ inflight' = [inflight EXCEPT ![c] = NoRequest]
    /\ UNCHANGED <<requests_version, init_args, init_result, init_message, tracker, sent>>

-----------------------------------------------------------------------------
(* UsageTracker.get_usage *)

\* url = f"{self.portal_url}/api/usage"
get_usage_url(self) == self.portal_url \o <<"/", "a", "p", "i", "/", "u", "s", "a", "g", "e">>

\* get_usage_params that never adds date_to
get_usage_params_no_date_to(self, date_from, date_to) ==
    IF Truthy(date_from)
    THEN [project_id |-> self.project_id, date_from |-> date_from[1]]
    ELSE [project_id |-> self.project_id]

\* params = {"project_id": ...}; if date_from: ...; if date_to: ...
get_usage_params(self, date_from, date_to) ==
    CASE Truthy(date_from) /\ Truthy(date_to) ->
            [project_id |-> self.project_id, date_from |-> date_from[1], date_to |-> date_to[1]]
      [] Truthy(date_from) /\ ~Truthy(date_to) ->
            [project_id |-> self.project_id, date_from |-> date_from[1]]
      [] ~Truthy(date_from) /\ Truthy(date_to) ->
            [project_id |-> self.project_id, date_to |-> date_to[1]]
      [] OTHER ->
            [project_id |-> self.project_id]

\* the body of the try block once requests.get has returned resp or raised resp.exception
get_usage_try(resp) ==
    IF resp.exception # "none" THEN Raise(resp.exception, <<Detail(resp.exception)>>)
    ELSE IF resp.status_code = 401
         THEN Raise("AuthenticationError", <<"Authentication failed. Check your auth token.">>)
    ELSE IF ~ResponseOk(resp.status_code)
         THEN Raise("UsageTrackerError",
                    <<"API request failed with status ">> \o IntToStr(resp.status_code))
    ELSE ResponseJson(resp)

\* the single except clause
get_usage_except(self, r, version) ==
    IF r.kind # "raise" THEN r
    ELSE IF IsInstance(r.exc, "RequestException", version)
         THEN Raise("UsageTrackerError", <<"Request failed: ">> \o r.msg)
    ELSE r

\* get_usage_request that keeps the URL it built in self.portal_url
get_usage_request_keeps_url(c, date_from, date_to) ==
    /\ init_result = "ok"
    /\ pc[c] = "idle"
    /\ pc' = [pc EXCEPT ![c] = "awaiting"]
    /\ call' = [call EXCEPT ![c] =
                   [NoCall EXCEPT !.op = "get_usage", !.date_from = date_from,
                                  !.date_to = date_to]]
    /\ inflight' = [inflight EXCEPT ![c] =
                       [method  |-> "GET",
                        url     |-> get_usage_url(tracker),
                        json    |-> <<>>,
                        params  |-> get_usage_params(tracker, date_from, date_to),
                        headers |-> get_headers(tracker),
                        timeout |-> tracker.timeout]]
    /\ tracker' = [tracker EXCEPT !.portal_url = get_usage_url(tracker)]
    /\ sent' = [sent EXCEPT ![c] = @ + 1]
    /\ UNCHANGED <<requests_version, init_args, init_result, init_message,
                   response, outcome>>

\* get_usage up to the point where requests.get blocks
get_usage_request(c, date_from, date_to) ==
    /\ init_result = "ok"
    /\ pc[c] = "idle"
    /\ pc' = [pc EXCEPT ![c] = "awaiting"]
    /\ call' = [call EXCEPT ![c] =
                   [NoCall EXCEPT !.op = "get_usage", !.date_from = date_from,
                                  !.date_to = date_to]]
    /\ inflight' = [inflight EXCEPT ![c] =
                       [method  |-> "GET",
                        url     |-> get_usage_url(tracker),
                        json    |-> <<>>,
                        params  |-> get_usage_params(tracker, date_from, date_to),
                        headers |-> get_headers(tracker),
                        timeout |-> tracker.timeout]]
    /\ sent' = [sent EXCEPT ![c] = @ + 1]
    /\ UNCHANGED <<requests_version, init_args, init_result, init_message, tracker,
                   response, outcome>>

\* get_usage from the return of requests.get to its own return or raise
get_usage_response(c, resp) ==
    /\ pc[c] = "awaiting"
    /\ call[c].op = "get_usage"
    /\ pc' = [pc EXCEPT ![c] = "done"]
    /\ response' = [response EXCEPT ![c] = resp]
    /\ outcome' = [outcome EXCEPT ![c] =
                      get_usage_except(tracker, get_usage_try(resp), requests_version)]
    /\ call' = [call EXCEPT ![c] = Ended("get_usage")]
    /\ inflight' = [inflight EXCEPT ![c] = NoRequest]
    /\ UNCHANGED <<requests_version, init_args, init_result, init_message, tracker, sent>>

-----------------------------------------------------------------------------
(* The caller: consumes the result or handles the exception, then may call again *)

CallerContinues(c) ==
    /\ pc[c] = "done"
    /\ pc' = [pc EXCEPT ![c] = "idle"]
    /\ call' = [call EXCEPT ![c] = NoCall]
    /\ sent' = [sent EXCEPT ![c] = 0]
    /\ response' = [response EXCEPT ![c] = NoResponse]
    /\ outcome' = [outcome EXCEPT ![c] = NoOutcome]
    /\ UNCHANGED <<requests_version, init_args, init_result, init_message, tracker, inflight>>

-----------------------------------------------------------------------------
(* TrackedOpenAI (examples/openai_tracked_example.py) *)

base_vars == <<requests_version, init_args, init_result, init_message, tracker,
               pc, call, inflight, sent, response, outcome>>

NoClient == [constructed |-> FALSE, track_failures |-> TRUE]

NoTrackedCall == [method |-> "none", model |-> ""]

\* the frame of a TrackedOpenAI call that has ended: the method's name is kept
EndedTracked(method) == [method |-> method, model |-> ""]

\* response.usage: None, or the token counts
PromptTokens     == {1500}
CompletionTokens == {500}
Usages ==
    {None} \cup {Some([prompt_tokens |-> p, completion_tokens |-> q]) :
                    p \in PromptTokens, q \in CompletionTokens}

NoApiResponse == [kind |-> "none", usage |-> None]

\* what client.chat.completions.create / client.completions.create can produce
ApiResults ==
    {[kind |-> "raise", usage |-> None]}
    \cup {[kind |-> "response", usage |-> u] : u \in Usages}

NoTrackedResult == [kind |-> "none", exc |-> "none", response |-> NoApiResponse]

\* datetime.utcnow().isoformat() + "Z"
UtcNow == "2024-01-01T00:00:00Z"

\* TrackedOpenAI.__init__
TrackedOpenAI_init(track_failures) ==
    /\ init_result = "ok"
    /\ ~client.constructed
    /\ client' = [constructed |-> TRUE, track_failures |-> track_failures]
    /\ UNCHANGED <<base_vars, wpc, wcall, api_response, attempts, tracked, wresult>>

\* the try block of _track_usage once tracker.track_usage has returned or raised r:
\* the print reads result['total_tokens'] and result['cost_usd']
TrackedTry(r) ==
    IF r.kind # "return" THEN r
    ELSE IF r.value.type # "object"
         THEN Raise("TypeError", <<"list indices must be integers or slices, not str">>)
    ELSE IF ~({"total_tokens", "cost_usd"} \subseteq r.value.keys)
         THEN Raise("KeyError", <<"total_tokens">>)
    ELSE r

\* _track_usage that re-raises whatever track_failures is
TrackedOpenAI_track_usage_always_raises(r, track_failures, version) ==
    TrackedTry(r)

\* _track_usage: the try block, then `except UsageTrackerError`, which
\* returns None when track_failures is set and re-raises when it is not
TrackedOpenAI_track_usage(r, track_failures, version) ==
    LET t == TrackedTry(r)
    IN  IF t.kind = "raise" /\ IsInstance(t.exc, "UsageTrackerError", version)
        THEN IF track_failures THEN Return(NoValue) ELSE t
        ELSE t

\* a method up to the point where the completion API call blocks
create_request(c, method, model) ==
    /\ client.constructed
    /\ wpc[c] = "idle"
    /\ pc[c] = "idle"
    /\ wpc' = [wpc EXCEPT ![c] = "calling"]
    /\ wcall' = [wcall EXCEPT ![c] = [method |-> method, model |-> model]]
    /\ UNCHANGED <<base_vars, client, api_response, attempts, tracked, wresult>>

\* chat_completion up to client.chat.completions.create
chat_completion_request(c, model) == create_request(c, "chat_completion", model)

\* completion up to client.completions.create
completion_request(c, model) == create_request(c, "completion", model)

\* a method from the return of the completion API call: the call raised, or
\* the response has no usage and is returned, or _track_usage is called and
\* runs up to the point where requests.post blocks
create_response(c, api) ==
    /\ wpc[c] = "calling"
    /\ api_response' = [api_response EXCEPT ![c] = api]
    /\ IF api.kind = "raise"
       THEN /\ wpc' = [wpc EXCEPT ![c] = "done"]
            /\ wresult' = [wresult EXCEPT ![c] =
                              [kind |-> "raise", exc |-> "APIError", response |-> NoApiResponse]]
            /\ wcall' = [wcall EXCEPT ![c] = EndedTracked(wcall[c].method)]
            /\ UNCHANGED <<base_vars, attempts>>
       ELSE IF api.usage = None
       THEN /\ wpc' = [wpc EXCEPT ![c] = "done"]
            /\ wresult' = [wresult EXCEPT ![c] =
                              [kind |-> "return", exc |-> "none", response |-> api]]
            /\ wcall' = [wcall EXCEPT ![c] = EndedTracked(wcall[c].method)]
            /\ UNCHANGED <<base_vars, attempts>>
       ELSE /\ wpc' = [wpc EXCEPT ![c] = "tracking"]
            /\ attempts' = [attempts EXCEPT ![c] = @ + 1]
            /\ track_usage_request(c, "openai", wcall[c].model,
                                   api.usage[1].prompt_tokens,
                                   api.usage[1].completion_tokens, Some(UtcNow))
            /\ UNCHANGED <<wresult, wcall>>
    /\ UNCHANGED <<client, tracked>>

\* a method from the end of tracker.track_usage to its own return or raise
tracking_response(c, resp) ==
    /\ wpc[c] = "tracking"
    /\ track_usage_response(c, resp)
    /\ LET r == track_usage_except(tracker, track_usage_try(resp), requests_version)
           t == TrackedOpenAI_track_usage(r, client.track_failures, requests_version)
       IN  /\ tracked' = [tracked EXCEPT ![c] = t]
           /\ wresult' = [wresult EXCEPT ![c] =
                             IF t.kind = "raise"
                             THEN [kind |-> "raise", exc |-> t.exc, response |-> NoApiResponse]
                             ELSE [kind |-> "return", exc |-> "none",
                                   response |-> api_response[c]]]
    /\ wpc' = [wpc EXCEPT ![c] = "done"]
    /\ wcall' = [wcall EXCEPT ![c] = EndedTracked(wcall[c].method)]
    /\ UNCHANGED <<client, api_response, attempts>>

\* the caller of the TrackedOpenAI method goes on
TrackedCallerContinues(c) ==
    /\ wpc[c] = "done"
    /\ wpc' = [wpc EXCEPT ![c] = "idle"]
    /\ wcall' = [wcall EXCEPT ![c] = NoTrackedCall]
    /\ api_response' = [api_response EXCEPT ![c] = NoApiResponse]
    /\ attempts' = [attempts EXCEPT ![c] = 0]
    /\ tracked' = [tracked EXCEPT ![c] = NoOutcome]
    /\ wresult' = [wresult EXCEPT ![c] = NoTrackedResult]
    /\ IF pc[c] = "done" THEN CallerContinues(c) ELSE UNCHANGED base_vars
    /\ UNCHANGED client

-----------------------------------------------------------------------------
(* The specification *)

Init ==
    /\ requests_version \in RequestsVersions
    /\ init_args = NoArgs
    /\ init_result = "new"
    /\ init_message = ""
    /\ tracker = NoTracker
    /\ pc = [c \in Callers |-> "idle"]
    /\ call = [c \in Callers |-> NoCall]
    /\ inflight = [c \in Callers |-> NoRequest]
    /\ sent = [c \in Callers |-> 0]
    /\ response = [c \in Callers |-> NoResponse]
    /\ outcome = [c \in Callers |-> NoOutcome]
    /\ client = NoClient
    /\ wpc = [c \in Callers |-> "idle"]
    /\ wcall = [c \in Callers |-> NoTrackedCall]
    /\ api_response = [c \in Callers |-> NoApiResponse]
    /\ attempts = [c \in Callers |-> 0]
    /\ tracked = [c \in Callers |-> NoOutcome]
    /\ wresult = [c \in Callers |-> NoTrackedResult]

Construct ==
    \E portal_url \in PortalUrls, auth_token \in AuthTokens,
       project_id \in ProjectIds, timeout \in Timeouts :
        /\ UsageTracker_init(portal_url, auth_token, project_id, timeout)
        /\ UNCHANGED tracked_vars

TrackUsageRequest ==
    \E c \in Callers, provider \in Providers, model \in Models,
       input_tokens \in InputTokens, output_tokens \in OutputTokens,
       request_timestamp \in Timestamps :
        /\ wpc[c] = "idle"
        /\ track_usage_request(c, provider, model, input_tokens, output_tokens, request_timestamp)
        /\ UNCHANGED tracked_vars

TrackUsageResponse ==
    \E c \in Callers, resp \in Responses :
        /\ wpc[c] = "idle"
        /\ track_usage_response(c, resp)
        /\ UNCHANGED tracked_vars

GetUsageRequest ==
    \E c \in Callers, date_from \in Dates, date_to \in Dates :
        /\ wpc[c] = "idle"
        /\ get_usage_request(c, date_from, date_to)
        /\ UNCHANGED tracked_vars

GetUsageResponse ==
    \E c \in Callers, resp \in Responses :
        /\ get_usage_response(c, resp)
        /\ UNCHANGED tracked_vars

Continue ==
    \E c \in Callers :
        /\ wpc[c] = "idle"
        /\ CallerContinues(c)
        /\ UNCHANGED tracked_vars

Next ==
    \/ Construct
    \/ TrackUsageRequest
    \/ TrackUsageResponse
    \/ GetUsageRequest
    \/ GetUsageResponse
    \/ Continue

Spec == Init /\ [][Next]_vars

\* The specification of the calls made through TrackedOpenAI

ConstructClient ==
    \E track_failures \in BOOLEAN : TrackedOpenAI_init(track_failures)

ChatCompletionRequest ==
    \E c \in Callers, model \in Models : chat_completion_request(c, model)

CompletionRequest ==
    \E c \in Callers, model \in Models : completion_request(c, model)

CreateResponse ==
    \E c \in Callers, api \in ApiResults : create_response(c, api)

TrackingResponse ==
    \E c \in Callers, resp \in Responses : tracking_response(c, resp)

TrackedContinue ==
    \E c \in Callers : TrackedCallerContinues(c)

NextTracked ==
    \/ Construct
    \/ ConstructClient
    \/ ChatCompletionRequest
    \/ CompletionRequest
    \/ CreateResponse
    \/ TrackingResponse
    \/ TrackedContinue

SpecTracked == Init /\ [][NextTracked]_vars

-----------------------------------------------------------------------------
(* Helpers of the properties *)

AllSlashes(url) == \A i \in 1..Len(url) : url[i] = "/"

ApiUsage == <<"/", "a", "p", "i", "/", "u", "s", "a", "g", "e">>

\* part occurs in the message msg, a sequence of text parts
Contains(msg, part) == \E i \in 1..Len(msg) : msg[i] = part

\* the parts sub occur in msg, contiguously
ContainsSeq(msg, sub) ==
    \E i \in 0..(Len(msg) - Len(sub)) : SubSeq(msg, i + 1, i + Len(sub)) = sub

Finished(c) == pc[c] = "done"

\* the call of c has ended and its HTTP exchange completed with a response
Answered(c) == Finished(c) /\ response[c].exception = "none"

\* the call of c has ended and its HTTP exchange failed in the transport
TransportFailed(c) == Finished(c) /\ response[c].exception # "none"

-----------------------------------------------------------------------------
(* C1 *)

\* C1 (as stated): construction succeeds for every triple of non-empty
\* strings, and fails with the constructor's error (ConfigError in the
\* spec, ValueError in the code), producing no tracker, whenever one of
\* the three is empty.
C1_NonEmptyTripleConstructs ==
    init_result # "new" =>
        LET a == init_args
            nonempty == a.portal_url # <<>> /\ a.auth_token # "" /\ a.project_id # ""
        IN  /\ nonempty => init_result = "ok"
            /\ ~nonempty => init_result = "ValueError" /\ tracker = NoTracker

\* C1 (amended): construction succeeds exactly when the base URL holds a
\* character other than "/" and the auth token and project id are non-empty;
\* in every other case it fails with ValueError, no tracker is produced and
\* no call can be made; on success the fields hold the arguments.
C1_Construction ==
    init_result # "new" =>
        LET a == init_args
            valid == /\ ~AllSlashes(a.portal_url)
                     /\ a.auth_token # ""
                     /\ a.project_id # ""
        IN  /\ init_result = "ok" <=> valid
            /\ init_result # "ok" =>
                  /\ init_result = "ValueError"
                  /\ init_message # ""
                  /\ tracker = NoTracker
                  /\ \A c \in Callers : pc[c] = "idle" /\ sent[c] = 0
            /\ init_result = "ok" =>
                  /\ tracker.auth_token = a.auth_token
                  /\ tracker.project_id = a.project_id
                  /\ tracker.timeout = a.timeout

\* a base URL that is non-empty but only slashes, with the two other
\* arguments non-empty, was rejected
C1_Witness ==
    /\ init_result = "ValueError"
    /\ init_args.portal_url = <<"/">>
    /\ init_args.auth_token = "tok"
    /\ init_args.project_id = "proj"

-----------------------------------------------------------------------------
(* C2 *)

\* C2: once the HTTP exchange has completed, the outcome is decided by the
\* operation and the status code as the error-mapping table says: 401 raises
\* AuthenticationError in both operations; in track_usage 422 raises
\* ValidationError and 404 raises UsageTrackerError("Project not found or
\* access denied"); every other status outside 200..299 raises
\* UsageTrackerError("API request failed with status {code}"); a status in
\* 200..299 returns the parsed JSON body unmodified (when the body parses).
C2_ErrorMapping ==
    \A c \in Callers :
        Answered(c) =>
            LET op     == call[c].op
                status == response[c].status_code
                o      == outcome[c]
            IN  IF status = 401
                THEN o.kind = "raise" /\ o.exc = "AuthenticationError"
                ELSE IF op = "track_usage" /\ status = 422
                THEN o.kind = "raise" /\ o.exc = "ValidationError"
                ELSE IF op = "track_usage" /\ status = 404
                THEN /\ o.kind = "raise" /\ o.exc = "UsageTrackerError"
                     /\ o.msg = <<"Project not found or access denied">>
                ELSE IF ~(200 <= status /\ status <= 299)
                THEN /\ o.kind = "raise" /\ o.exc = "UsageTrackerError"
                     /\ o.msg = <<"API request failed with status ">> \o IntToStr(status)
                ELSE response[c].body.wellformed =>
                        /\ o.kind = "return"
                        /\ o.value = JsonValue(response[c].body)

-----------------------------------------------------------------------------
(* C3 *)

\* C3: every 422 response to track_usage raises ValidationError, whose
\* message contains the body's "error" value when the body is a JSON object
\* that has one, and "Unknown error" when the field is absent or the body
\* is not JSON.
C3_ValidationError ==
    \A c \in Callers :
        (Answered(c) /\ call[c].op = "track_usage" /\ response[c].status_code = 422) =>
            LET body == response[c].body
                o    == outcome[c]
            IN  /\ o.kind = "raise"
                /\ o.exc = "ValidationError"
                /\ IF body.wellformed /\ "error" \in body.keys
                   THEN Contains(o.msg, body.error)
                   ELSE Contains(o.msg, "Unknown error")

-----------------------------------------------------------------------------
(* C4 *)

\* C4 (as stated): in track_usage and in get_usage alike, a transport
\* timeout raises UsageTrackerError "Request timed out after ..." naming the
\* configured timeout, a connection failure raises UsageTrackerError
\* "Failed to connect to {base_url}", and the other transport failures raise
\* UsageTrackerError "Request failed: {detail}".
C4_TransportRowsBothOperations ==
    \A c \in Callers :
        TransportFailed(c) =>
            LET e == response[c].exception
                o == outcome[c]
            IN  /\ o.kind = "raise"
                /\ o.exc = "UsageTrackerError"
                /\ IF e \in {"ReadTimeout", "ConnectTimeout"}
                   THEN /\ o.msg[1] = "Request timed out after "
                        /\ ContainsSeq(o.msg, IntToStr(tracker.timeout))
                   ELSE IF e = "ConnectionError"
                   THEN o.msg = <<"Failed to connect to ">> \o tracker.portal_url
                   ELSE o.msg = <<"Request failed: ", Detail(e)>>

\* C4 (amended): the three transport rows hold in track_usage only, where a
\* timeout (a connect timeout included) raises UsageTrackerError "Request
\* timed out after {timeout} seconds", another connection failure raises
\* UsageTrackerError "Failed to connect to {base_url}" and the remaining
\* transport failures raise UsageTrackerError "Request failed: {detail}";
\* in get_usage every transport failure, timeouts and connection failures
\* included, raises UsageTrackerError "Request failed: {detail}".
C4_TransportRows ==
    \A c \in Callers :
        TransportFailed(c) =>
            LET e == response[c].exception
                o == outcome[c]
            IN  /\ o.kind = "raise"
                /\ o.exc = "UsageTrackerError"
                /\ IF call[c].op = "get_usage"
                   THEN o.msg = <<"Request failed: ", Detail(e)>>
                   ELSE IF e \in {"ReadTimeout", "ConnectTimeout"}
                   THEN o.msg = <<"Request timed out after ">>
                                \o IntToStr(init_args.timeout) \o <<" seconds">>
                   ELSE IF e = "ConnectionError"
                   THEN o.msg = <<"Failed to connect to ">> \o tracker.portal_url
                   ELSE o.msg = <<"Request failed: ", Detail(e)>>

\* one caller's get_usage timed out and raised "Request failed: ...", while
\* the other's track_usage hit a connect timeout and raised "Request timed
\* out after ..."
C4_Witness ==
    \E c, d \in Callers :
        /\ TransportFailed(c) /\ call[c].op = "get_usage"
        /\ response[c].exception = "ReadTimeout"
        /\ outcome[c].msg[1] = "Request failed: "
        /\ TransportFailed(d) /\ call[d].op = "track_usage"
        /\ response[d].exception = "ConnectTimeout"
        /\ outcome[d].msg[1] = "Request timed out after "

-----------------------------------------------------------------------------
(* C5 *)

\* C5: every call that has ended either returned the parsed JSON body of a
\* well-formed response or raised UsageTrackerError, AuthenticationError or
\* ValidationError; nothing else comes out of a call, whatever the transport
\* result, status code and body.
C5_ReturnsJsonOrRaisesTyped ==
    \A c \in Callers :
        Finished(c) =>
            \/ /\ outcome[c].kind = "return"
               /\ response[c].body.wellformed
               /\ outcome[c].value = JsonValue(response[c].body)
            \/ /\ outcome[c].kind = "raise"
               /\ outcome[c].exc \in UsageTrackerErrors

-----------------------------------------------------------------------------
(* C6 *)

\* C6: a call issues exactly one HTTP request, whatever its arguments and
\* whatever the request's outcome: a caller that is not in a call has sent
\* nothing, a call waiting for its response has sent one request and has no
\* result yet, and a call that has ended has sent that one request and has
\* its result.
C6_OneRequestPerCall ==
    \A c \in Callers :
        /\ pc[c] = "idle" => sent[c] = 0 /\ outcome[c] = NoOutcome
        /\ pc[c] = "awaiting" =>
              sent[c] = 1 /\ outcome[c] = NoOutcome /\ inflight[c].method # "none"
        /\ pc[c] = "done" => sent[c] = 1 /\ outcome[c] # NoOutcome

\* one call with an empty provider and model and a negative token count is
\* waiting for the response to its one request, while another call has
\* ended in a timeout after its one request
C6_Witness ==
    \E c, d \in Callers :
        /\ pc[c] = "awaiting" /\ call[c].op = "track_usage"
        /\ call[c].provider = "" /\ call[c].model = "" /\ call[c].input_tokens = -1
        /\ sent[c] = 1
        /\ TransportFailed(d) /\ response[d].exception = "ReadTimeout"
        /\ outcome[d].kind = "raise" /\ sent[d] = 1

-----------------------------------------------------------------------------
(* C7 *)

TrackUsageKeys == {"project_id", "provider", "model", "input_tokens", "output_tokens"}

\* the payload of c's request carries the five fixed fields with the
\* configured project id and the caller's values
C7_FiveFields(c) ==
    LET a == call[c]
        p == inflight[c].json
    IN  /\ TrackUsageKeys \subseteq DOMAIN p
        /\ DOMAIN p \subseteq TrackUsageKeys \cup {"request_timestamp"}
        /\ p.project_id = init_args.project_id
        /\ p.provider = a.provider
        /\ p.model = a.model
        /\ p.input_tokens = a.input_tokens
        /\ p.output_tokens = a.output_tokens
        /\ "request_timestamp" \in DOMAIN p => p.request_timestamp = a.request_timestamp[1]

\* C7 (as stated): the JSON body of track_usage holds exactly project_id,
\* provider, model, input_tokens and output_tokens with the configured and
\* the caller's values, and the key request_timestamp if and only if the
\* caller supplied a request_timestamp.
C7_TimestampIffSupplied ==
    \A c \in Callers :
        (pc[c] = "awaiting" /\ call[c].op = "track_usage") =>
            /\ C7_FiveFields(c)
            /\ "request_timestamp" \in DOMAIN inflight[c].json
                  <=> call[c].request_timestamp # None

\* C7 (amended): the JSON body of track_usage holds exactly project_id,
\* provider, model, input_tokens and output_tokens with the configured and
\* the caller's values, and the key request_timestamp, with the caller's
\* value, if and only if the caller supplied a non-empty request_timestamp;
\* when none or the empty string is supplied the key is absent.
C7_Payload ==
    \A c \in Callers :
        (pc[c] = "awaiting" /\ call[c].op = "track_usage") =>
            /\ C7_FiveFields(c)
            /\ "request_timestamp" \in DOMAIN inflight[c].json
                  <=> (call[c].request_timestamp # None /\ call[c].request_timestamp # Some(""))

\* one request was sent for a call given the empty string as timestamp, and
\* its body has no request_timestamp; another was sent for a call given a
\* timestamp, and its body has it
C7_Witness ==
    \E c, d \in Callers :
        /\ pc[c] = "awaiting" /\ call[c].op = "track_usage"
        /\ call[c].request_timestamp = Some("")
        /\ DOMAIN inflight[c].json = TrackUsageKeys
        /\ pc[d] = "awaiting" /\ call[d].op = "track_usage"
        /\ call[d].request_timestamp = Some("2024-01-01T00:00:00Z")
        /\ inflight[d].json.request_timestamp = "2024-01-01T00:00:00Z"

-----------------------------------------------------------------------------
(* C8 *)

\* the parameters of c's request that are sent carry the configured project
\* id and the caller's dates, and no other parameter is sent
C8_Values(c) ==
    LET a == call[c]
        q == inflight[c].params
    IN  /\ "project_id" \in DOMAIN q
        /\ DOMAIN q \subseteq {"project_id", "date_from", "date_to"}
        /\ q.project_id = init_args.project_id
        /\ "date_from" \in DOMAIN q => q.date_from = a.date_from[1]
        /\ "date_to" \in DOMAIN q => q.date_to = a.date_to[1]

\* C8 (as stated): the query parameters of get_usage are project_id, always,
\* date_from if and only if date_from was supplied and date_to if and only
\* if date_to was supplied, and nothing else.
C8_DatesIffSupplied ==
    \A c \in Callers :
        (pc[c] = "awaiting" /\ call[c].op = "get_usage") =>
            /\ C8_Values(c)
            /\ "date_from" \in DOMAIN inflight[c].params <=> call[c].date_from # None
            /\ "date_to" \in DOMAIN inflight[c].params <=> call[c].date_to # None

\* C8 (amended): the query parameters of get_usage are project_id, always,
\* with the configured value, date_from if and only if a non-empty date_from
\* was supplied and date_to if and only if a non-empty date_to was supplied,
\* each with the caller's value, and nothing else; a date given as the empty
\* string is left out like one that was not given.
C8_Params ==
    \A c \in Callers :
        (pc[c] = "awaiting" /\ call[c].op = "get_usage") =>
            /\ C8_Values(c)
            /\ "date_from" \in DOMAIN inflight[c].params
                  <=> (call[c].date_from # None /\ call[c].date_from # Some(""))
            /\ "date_to" \in DOMAIN inflight[c].params
                  <=> (call[c].date_to # None /\ call[c].date_to # Some(""))

\* one request was sent with both dates, another for a call given an empty
\* date_from and a date_to, with date_to alone
C8_Witness ==
    \E c, d \in Callers :
        /\ pc[c] = "awaiting" /\ call[c].op = "get_usage"
        /\ DOMAIN inflight[c].params = {"project_id", "date_from", "date_to"}
        /\ pc[d] = "awaiting" /\ call[d].op = "get_usage"
        /\ call[d].date_from = Some("") /\ call[d].date_to = Some("2024-01-01")
        /\ DOMAIN inflight[d].params = {"project_id", "date_to"}

-----------------------------------------------------------------------------
(* C9 *)

\* C9: once constructed, no step of track_usage or get_usage, of any caller
\* and whether the call succeeds or fails, changes a field of the tracker;
\* and the URL, headers, timeout and project id of a request that a step
\* sends are those the construction arguments give.
C9_TrackerNeverMutated ==
    [][init_result = "ok" =>
          /\ tracker' = tracker
          /\ \A c \in Callers :
                (pc[c] = "idle" /\ pc'[c] = "awaiting") =>
                    /\ inflight'[c].url = rstrip(init_args.portal_url, "/") \o ApiUsage
                    /\ inflight'[c].headers.Authorization = <<"Bearer ", init_args.auth_token>>
                    /\ inflight'[c].timeout = init_args.timeout
                    /\ call'[c].op = "track_usage" =>
                          inflight'[c].json.project_id = init_args.project_id
                    /\ call'[c].op = "get_usage" =>
                          inflight'[c].params.project_id = init_args.project_id]_vars

\* a failed call and a call in flight at the same time, with the tracker's
\* fields as constructed
C9_Witness ==
    \E c, d \in Callers :
        /\ Finished(c) /\ outcome[c].kind = "raise"
        /\ pc[d] = "awaiting" /\ sent[d] = 1
        /\ tracker = [portal_url |-> <<"h">>, auth_token |-> "tok",
                      project_id |-> "proj", timeout |-> 5]

-----------------------------------------------------------------------------
(* C10 *)

\* stripped is url without its trailing slashes, all of them
StrippedOf(stripped, url) ==
    \E k \in 0..Len(url) :
        /\ stripped = SubSeq(url, 1, k)
        /\ \A i \in (k + 1)..Len(url) : url[i] = "/"
        /\ k > 0 => url[k] # "/"

\* C10: the constructed tracker's base URL is the argument without any of
\* its trailing slashes; every request of track_usage and of get_usage goes
\* to that base URL followed by /api/usage, so the character before
\* /api/usage is never a slash; and a base URL of slashes only is rejected
\* by the constructor.
C10_BaseUrlNormalised ==
    /\ init_result = "ok" => StrippedOf(tracker.portal_url, init_args.portal_url)
    /\ (init_result # "new" /\ AllSlashes(init_args.portal_url)) => init_result = "ValueError"
    /\ \A c \in Callers :
          pc[c] = "awaiting" =>
              LET url == inflight[c].url
                  n   == Len(url) - Len(ApiUsage)
              IN  /\ n > 0
                  /\ SubSeq(url, 1, n) = tracker.portal_url
                  /\ SubSeq(url, n + 1, Len(url)) = ApiUsage
                  /\ url[n] # "/"

\* a tracker built from "h/" has a POST and a GET in flight, both to h/api/usage
C10_Witness ==
    \E c, d \in Callers :
        /\ init_args.portal_url = <<"h", "/">>
        /\ pc[c] = "awaiting" /\ inflight[c].method = "POST"
        /\ inflight[c].url = <<"h">> \o ApiUsage
        /\ pc[d] = "awaiting" /\ inflight[d].method = "GET"
        /\ inflight[d].url = <<"h">> \o ApiUsage

-----------------------------------------------------------------------------
(* C11 *)

\* C11: in TrackedOpenAI.chat_completion and completion, no tracking starts
\* before the completion API call has returned; tracker.track_usage is
\* called at most once per call, and only for a response that carries
\* usage; when that call raised an error of the UsageTrackerError taxonomy,
\* then with track_failures set _track_usage returns None and the method
\* returns the completion response, and with track_failures not set the
\* method raises that error and returns no response.
C11_TrackAfterCompletion ==
    \A c \in Callers :
        /\ wpc[c] \in {"idle", "calling"} =>
              attempts[c] = 0 /\ sent[c] = 0 /\ pc[c] = "idle"
        /\ attempts[c] <= 1 /\ sent[c] <= attempts[c]
        /\ attempts[c] = 1 =>
              /\ api_response[c].kind = "response"
              /\ api_response[c].usage # None
        /\ wpc[c] = "tracking" => attempts[c] = 1 /\ wresult[c] = NoTrackedResult
        /\ (wpc[c] = "done" /\ attempts[c] = 1 /\ outcome[c].kind = "raise"
              /\ outcome[c].exc \in UsageTrackerErrors) =>
              IF client.track_failures
              THEN /\ tracked[c] = Return(NoValue)
                   /\ wresult[c].kind = "return"
                   /\ wresult[c].response = api_response[c]
              ELSE /\ wresult[c].kind = "raise"
                   /\ wresult[c].exc = outcome[c].exc
                   /\ wresult[c].response = NoApiResponse

\* with track_failures set, tracking failed with AuthenticationError in a
\* chat_completion call and with a timeout in a completion call, and each
\* call returned its completion response after one tracking attempt
C11_Witness ==
    \E c, d \in Callers :
        /\ client.track_failures
        /\ wpc[c] = "done" /\ wcall[c].method = "chat_completion"
        /\ outcome[c].kind = "raise" /\ outcome[c].exc = "AuthenticationError"
        /\ attempts[c] = 1 /\ sent[c] = 1
        /\ wresult[c].kind = "return" /\ wresult[c].response.usage # None
        /\ wpc[d] = "done" /\ wcall[d].method = "completion"
        /\ response[d].exception = "ReadTimeout"
        /\ outcome[d].kind = "raise" /\ outcome[d].exc = "UsageTrackerError"
        /\ attempts[d] = 1
        /\ wresult[d].kind = "return" /\ wresult[d].response = api_response[d]

====
